---- MODULE Spec2Model ----
(***************************************************************************)
(* State-machine model of tangram.py: the module script constructs a       *)
(* TangramPuzzle (read the file, parse the directive lines, check the      *)
(* count, compute the vertices), prints it, calls _rotate once and writes  *)
(* the diagram with draw_pieces.                                           *)
(*                                                                         *)
(* Numbers.  Coordinates are Python floats rounded to 5 decimals; here a   *)
(* coordinate is the integer number of 1e-5 units (1.5 is 150000).         *)
(* Template points are kept in half units (1.5 is 3) and sines in 1e-8     *)
(* units, so that every product fits the model checker's integers.         *)
(*                                                                         *)
(* Text.  A line of the input file is a record of the parts the code       *)
(* looks at: lead ("%" when the stripped line starts with the comment      *)
(* marker), tag (the line contains \PieceTangram), sol (the tag is         *)
(* followed by [TangSol]), hasopt and options (the <...> group, each       *)
(* option being the list of its '='-separated parts), x, y (the texts      *)
(* between the parentheses) and type (the text between the braces).        *)
(***************************************************************************)
EXTENDS Integers, Sequences, FiniteSets, TLC

VARIABLES content, lines, line_no, piece_index, transformations, pieces,
          error, constructed, stdout, xy, outfile, pc

vars == <<content, lines, line_no, piece_index, transformations, pieces,
          error, constructed, stdout, xy, outfile, pc>>

----------------------------------------------------------------------------
(* Bounds of the model *)

MaxLines == 8      \* longest input file of the mixed family
MaxJunk == 2       \* most lines of a mixed file that are not valid directives
MaxOpts == 3       \* longest option list of the option family
MaxAnchor == 1     \* anchors of the transform family are (a, -a), a in -MaxAnchor..MaxAnchor
MaxInt == 450      \* int() is modelled on the decimal texts of -MaxInt..MaxInt

----------------------------------------------------------------------------
(* Program constants *)

ExpectedPieces == 7
FullTurn == 360
Margin == 2
Unit == 100000
TrigScale == 100000000
HalfUnit == 2

piece_labels ==
  << "Large triangle 1", "Large triangle 2", "Medium triangle",
     "Small triangle 1", "Small triangle 2", "Square", "Parallelogram" >>

\* shape_templates, in half units
Triangle == << <<0, 0>>, <<2, 0>>, <<0, 2>> >>

shape_templates ==
  [ name \in { piece_labels[k] : k \in 1..Len(piece_labels) } |->
      CASE name = "Square" -> << <<0, 0>>, <<2, 0>>, <<2, 2>>, <<0, 2>> >>
        [] name = "Parallelogram" -> << <<0, 0>>, <<2, 0>>, <<3, 2>>, <<1, 2>> >>
        [] OTHER -> Triangle ]

----------------------------------------------------------------------------
(* int(): text to integer, ValueError on anything else *)

IntRange == (0 - MaxInt)..MaxInt

IntTable ==
  [ s \in { ToString(n) : n \in IntRange } |->
      CHOOSE n \in IntRange : ToString(n) = s ]

IsInt(s) == s \in DOMAIN IntTable

int(s) == IntTable[s]

----------------------------------------------------------------------------
(* math.sin and math.cos of a whole number of degrees, in 1e-8 units *)

SinTable ==
  << 1745241, 3489950, 5233596, 6975647, 8715574, 10452846, 12186934,
     13917310, 15643447, 17364818, 19080900, 20791169, 22495105, 24192190,
     25881905, 27563736, 29237170, 30901699, 32556815, 34202014, 35836795,
     37460659, 39073113, 40673664, 42261826, 43837115, 45399050, 46947156,
     48480962, 50000000, 51503807, 52991926, 54463904, 55919290, 57357644,
     58778525, 60181502, 61566148, 62932039, 64278761, 65605903, 66913061,
     68199836, 69465837, 70710678, 71933980, 73135370, 74314483, 75470958,
     76604444, 77714596, 78801075, 79863551, 80901699, 81915204, 82903757,
     83867057, 84804810, 85716730, 86602540, 87461971, 88294759, 89100652,
     89879405, 90630779, 91354546, 92050485, 92718385, 93358043, 93969262,
     94551858, 95105652, 95630476, 96126170, 96592583, 97029573, 97437006,
     97814760, 98162718, 98480775, 98768834, 99026807, 99254615, 99452190,
     99619470, 99756405, 99862953, 99939083, 99984770, 100000000 >>

SinAcute(d) == IF d = 0 THEN 0 ELSE SinTable[d]

Sin(d) ==
  IF d <= FullTurn \div 4 THEN SinAcute(d)
  ELSE IF d <= FullTurn \div 2 THEN SinAcute(FullTurn \div 2 - d)
  ELSE IF d <= 3 * (FullTurn \div 4) THEN 0 - SinAcute(d - FullTurn \div 2)
  ELSE 0 - SinAcute(FullTurn - d)

Cos(d) == Sin((d + FullTurn \div 4) % FullTurn)

\* round(v, 5) of the value num / (HalfUnit * TrigScale), in 1e-5 units
Round5(num) ==
  LET m == (HalfUnit * TrigScale) \div Unit
  IN (2 * num + m) \div (2 * m)

\* _rotate(x, y, degrees), x and y in half units
_rotate(x, y, degrees) ==
  << Round5(x * Cos(degrees) - y * Sin(degrees)),
     Round5(x * Sin(degrees) + y * Cos(degrees)) >>

----------------------------------------------------------------------------
(* _parse_tex *)

\* the list comprehension that keeps the lines to parse
KeepLine(l) == l.tag /\ l.lead # "%"

\* re.search of the directive pattern on the line without its blanks
Matches(l) == l.tag /\ l.sol /\ l.x # "" /\ l.y # "" /\ l.type # ""

\* mutant: the rotate value is stored as given
NormalizeRotateNone(n) == n

NormalizeRotate(n) == n % FullTurn

\* the loop over the options: the transform so far, or a ValueError
RECURSIVE ParseOptions(_, _, _)
ParseOptions(options, k, acc) ==
  IF k > Len(options) \/ acc.err THEN acc
  ELSE LET opt == options[k] IN
    IF opt = <<"xscale", "-1">>
    THEN ParseOptions(options, k + 1, [acc EXCEPT !.xflip = TRUE])
    ELSE IF opt = <<"yscale", "-1">>
    THEN ParseOptions(options, k + 1, [acc EXCEPT !.yflip = TRUE])
    ELSE IF Len(opt) >= 2 /\ opt[1] = "rotate"
    THEN IF IsInt(opt[2])
         THEN ParseOptions(options, k + 1,
                [acc EXCEPT !.rotate = NormalizeRotate(int(opt[2]))])
         ELSE [acc EXCEPT !.err = TRUE]
    ELSE ParseOptions(options, k + 1, acc)

NoTransform == [xflip |-> FALSE, yflip |-> FALSE, rotate |-> 0, err |-> FALSE]

LineTransform(l) ==
  IF l.hasopt /\ l.options # <<>>
  THEN ParseOptions(l.options, 1, NoTransform)
  ELSE NoTransform

\* mutant: the label is chosen by the type tag of the line
LabelOfByType(index, type) ==
  CASE type = "TangGrandTri" -> "Large triangle 1"
    [] type = "TangMoyTri" -> "Medium triangle"
    [] type = "TangPetTri" -> "Small triangle 1"
    [] type = "TangCar" -> "Square"
    [] OTHER -> "Parallelogram"

\* the label given to the directive parsed when piece_index is index
LabelOf(index, type) == piece_labels[index + 1]

NoError == [type |-> "none", msg |-> <<>>]

Raise(type, msg) ==
  /\ error' = [type |-> type, msg |-> msg]
  /\ pc' = "raised"

ReadFile ==
  /\ pc = "start"
  /\ lines' = SelectSeq(content, KeepLine)
  /\ line_no' = 1
  /\ piece_index' = 0
  /\ pc' = "parse"
  /\ UNCHANGED <<content, transformations, pieces, error, constructed,
                 stdout, xy, outfile>>

ParseLine ==
  /\ pc = "parse"
  /\ line_no <= Len(lines)
  /\ LET l == lines[line_no]
         t == LineTransform(l)
     IN IF ~Matches(l)
        THEN /\ line_no' = line_no + 1
             /\ UNCHANGED <<piece_index, transformations, pieces, error, pc>>
        ELSE IF t.err
        THEN /\ Raise("ValueError", <<>>)
             /\ UNCHANGED <<line_no, piece_index, transformations, pieces>>
        ELSE IF piece_index >= Len(piece_labels)
        THEN /\ Raise("IndexError", <<>>)
             /\ UNCHANGED <<line_no, piece_index, transformations, pieces>>
        ELSE LET name == LabelOf(piece_index, l.type)
                 tr == [xflip |-> t.xflip, yflip |-> t.yflip, rotate |-> t.rotate]
             IN /\ transformations' =
                     [n \in DOMAIN transformations \cup {name} |->
                        IF n = name THEN tr ELSE transformations[n]]
                /\ IF IsInt(l.x) /\ IsInt(l.y)
                   THEN /\ pieces' = Append(pieces,
                              [name |-> name, x |-> int(l.x), y |-> int(l.y),
                               transform |-> tr, vertices |-> <<>>])
                        /\ piece_index' = piece_index + 1
                        /\ line_no' = line_no + 1
                        /\ UNCHANGED <<error, pc>>
                   ELSE /\ Raise("ValueError", <<>>)
                        /\ UNCHANGED <<line_no, piece_index, pieces>>
  /\ UNCHANGED <<content, lines, constructed, stdout, xy, outfile>>

\* mutant: the count is not checked
AssertCountSkipped ==
  /\ pc = "parse"
  /\ line_no > Len(lines)
  /\ pc' = "compute"
  /\ UNCHANGED <<content, lines, line_no, piece_index, transformations,
                 pieces, error, constructed, stdout, xy, outfile>>

AssertCount ==
  /\ pc = "parse"
  /\ line_no > Len(lines)
  /\ IF piece_index = ExpectedPieces
     THEN pc' = "compute" /\ UNCHANGED error
     ELSE Raise("AssertionError", <<ExpectedPieces, piece_index>>)
  /\ UNCHANGED <<content, lines, line_no, piece_index, transformations,
                 pieces, constructed, stdout, xy, outfile>>

----------------------------------------------------------------------------
(* _compute_vertices *)

\* mutant: the flips are applied to the template point, before the rotation
TransformPointFlipFirst(pt, transform, x_anchor, y_anchor) ==
  LET x_flip == IF transform.xflip THEN 0 - pt[1] ELSE pt[1]
      y_flip == IF transform.yflip THEN 0 - pt[2] ELSE pt[2]
      rot == _rotate(x_flip, y_flip, transform.rotate)
  IN << rot[1] + x_anchor * Unit, rot[2] + y_anchor * Unit >>

\* rotate, flip, translate one template point; the result in 1e-5 units
TransformPoint(pt, transform, x_anchor, y_anchor) ==
  LET rot == _rotate(pt[1], pt[2], transform.rotate)
      x_rot == IF transform.xflip THEN 0 - rot[1] ELSE rot[1]
      y_rot == IF transform.yflip THEN 0 - rot[2] ELSE rot[2]
  IN << x_rot + x_anchor * Unit, y_rot + y_anchor * Unit >>

\* mutant: the key is (p[0], p[1]), ties go to the smallest y
KeyLessMinY(p, q) == p[1] < q[1] \/ (p[1] = q[1] /\ p[2] < q[2])

\* the key (p[0], -p[1]) of p is smaller than that of q
KeyLess(p, q) == p[1] < q[1] \/ (p[1] = q[1] /\ (0 - p[2]) < (0 - q[2]))

\* min(transformed, key=...): the first element with the smallest key
MinPoint(transformed) ==
  LET idx == 1..Len(transformed)
      i == CHOOSE i \in idx :
             /\ \A j \in idx : ~KeyLess(transformed[j], transformed[i])
             /\ \A j \in idx : j < i => KeyLess(transformed[i], transformed[j])
  IN transformed[i]

\* list.index
Index(s, e) == CHOOSE i \in 1..Len(s) : s[i] = e /\ \A j \in 1..(i - 1) : s[j] # e

\* mutant: from min_idx the list is walked backwards
StartAtReversed(transformed, min_idx) ==
  [ j \in 1..Len(transformed) |->
      transformed[((min_idx - j + Len(transformed)) % Len(transformed)) + 1] ]

\* transformed[min_idx:] + transformed[:min_idx]
StartAt(transformed, min_idx) ==
  SubSeq(transformed, min_idx, Len(transformed)) \o SubSeq(transformed, 1, min_idx - 1)

Resolve(piece) ==
  LET base_vertices == shape_templates[piece.name]
      transformed == [ j \in 1..Len(base_vertices) |->
                         TransformPoint(base_vertices[j], piece.transform,
                                        piece.x, piece.y) ]
      min_point == MinPoint(transformed)
  IN StartAt(transformed, Index(transformed, min_point))

ComputeVertices ==
  /\ pc = "compute"
  /\ pieces' = [ k \in 1..Len(pieces) |->
                   [pieces[k] EXCEPT !.vertices = Resolve(pieces[k])] ]
  /\ constructed' = TRUE
  /\ pc' = "print"
  /\ UNCHANGED <<content, lines, line_no, piece_index, transformations,
                 error, stdout, xy, outfile>>

----------------------------------------------------------------------------
(* __str__, the module script and draw_pieces *)

RECURSIVE Flatten(_)
Flatten(ss) == IF ss = <<>> THEN <<>> ELSE Head(ss) \o Flatten(Tail(ss))

\* __str__: per piece the label line, then one line per vertex
Str(ps) ==
  Flatten([ k \in 1..Len(ps) |->
            << <<ps[k].name>> >> \o
            [ j \in 1..Len(ps[k].vertices) |-> ps[k].vertices[j] ] ])

PrintPuzzle ==
  /\ pc = "print"
  /\ stdout' = Str(pieces)
  /\ pc' = "rotate"
  /\ UNCHANGED <<content, lines, line_no, piece_index, transformations,
                 pieces, error, constructed, xy, outfile>>

\* x, y = puzzle._rotate(1, 0, 90)
RotateCall ==
  /\ pc = "rotate"
  /\ xy' = _rotate(1 * HalfUnit, 0, FullTurn \div 4)
  /\ pc' = "draw"
  /\ UNCHANGED <<content, lines, line_no, piece_index, transformations,
                 pieces, error, constructed, stdout, outfile>>

RECURSIVE SeqMin(_)
SeqMin(s) ==
  IF Len(s) = 1 THEN s[1]
  ELSE LET m == SeqMin(Tail(s)) IN IF s[1] <= m THEN s[1] ELSE m

RECURSIVE SeqMax(_)
SeqMax(s) ==
  IF Len(s) = 1 THEN s[1]
  ELSE LET m == SeqMax(Tail(s)) IN IF s[1] >= m THEN s[1] ELSE m

\* all_x (axis 1) and all_y (axis 2)
AllCoords(ps, axis) ==
  Flatten([ k \in 1..Len(ps) |->
            [ j \in 1..Len(ps[k].vertices) |-> ps[k].vertices[j][axis] ] ])

\* mutant: the box of the first piece alone
GridBoxFirstPiece(ps) ==
  LET one == << ps[1] >>
  IN [ min_x |-> SeqMin(AllCoords(one, 1)) - Margin * Unit,
       max_x |-> SeqMax(AllCoords(one, 1)) + Margin * Unit,
       min_y |-> SeqMin(AllCoords(one, 2)) - Margin * Unit,
       max_y |-> SeqMax(AllCoords(one, 2)) + Margin * Unit ]

\* the two corners of the grid
GridBox(ps) ==
  [ min_x |-> SeqMin(AllCoords(ps, 1)) - Margin * Unit,
    max_x |-> SeqMax(AllCoords(ps, 1)) + Margin * Unit,
    min_y |-> SeqMin(AllCoords(ps, 2)) - Margin * Unit,
    max_y |-> SeqMax(AllCoords(ps, 2)) + Margin * Unit ]

\* the coordinates of one \draw path
PathOf(vertices) == vertices \o << vertices[1] >>

NoFile == [written |-> FALSE]

DrawPieces ==
  /\ pc = "draw"
  /\ IF AllCoords(pieces, 1) = <<>>
     THEN Raise("ValueError", <<>>) /\ UNCHANGED outfile
     ELSE /\ outfile' = [ written |-> TRUE,
                          grid |-> GridBox(pieces),
                          origin |-> <<0, 0>>,
                          paths |-> [ k \in 1..Len(pieces) |->
                                       PathOf(pieces[k].vertices) ] ]
          /\ pc' = "done"
          /\ UNCHANGED error
  /\ UNCHANGED <<content, lines, line_no, piece_index, transformations,
                 pieces, constructed, stdout, xy>>

----------------------------------------------------------------------------
(* Input files *)

Directive(options, x, y, type) ==
  [ lead |-> "", tag |-> TRUE, sol |-> TRUE, hasopt |-> options # <<>>,
    options |-> options, x |-> x, y |-> y, type |-> type ]

PlainLine == Directive(<<>>, "0", "0", "TangGrandTri")

FlipLine == Directive(<< <<"xscale", "-1">>, <<"rotate", "-90">> >>,
                      "1", "-1", "TangCar")

CommentLine == [PlainLine EXCEPT !.lead = "%"]

BrokenLine == [PlainLine EXCEPT !.type = ""]

TextLine == [ lead |-> "", tag |-> FALSE, sol |-> FALSE, hasopt |-> FALSE,
              options |-> <<>>, x |-> "", y |-> "", type |-> "" ]

BadAnchorLine == [PlainLine EXCEPT !.x = "a"]

BadRotateLine == Directive(<< <<"rotate", "1.5">> >>, "0", "0", "TangMoyTri")

JunkLines == << CommentLine, BrokenLine, TextLine, BadAnchorLine, BadRotateLine >>

\* mixed family: valid lines alternate between the two directives, and at most
\* MaxJunk other lines stand at chosen places, their kinds taken in turn
Rank(J, p) == Cardinality({ q \in J : q < p })

MixedFile(n, J, first, shift) ==
  [ p \in 1..n |->
      IF p \in J THEN JunkLines[((first + Rank(J, p)) % Len(JunkLines)) + 1]
      ELSE IF (p + shift) % 2 = 0 THEN PlainLine ELSE FlipLine ]

MixedFiles ==
  { MixedFile(n, J, first, shift) :
      n \in 0..MaxLines,
      J \in { K \in SUBSET (1..MaxLines) : Cardinality(K) <= MaxJunk },
      first \in 0..(Len(JunkLines) - 1),
      shift \in 0..1 }

\* option family: the first directive carries an option list, six plain follow
OptionTokens ==
  { <<"xscale", "-1">>, <<"yscale", "-1">>, <<"xscale", "1">>, <<"foo">>,
    <<"rotate">>, <<"rotate", "-90">>, <<"rotate", "450">>, <<"rotate", "45">> }

RECURSIVE SeqsUpTo(_, _)
SeqsUpTo(S, n) ==
  IF n = 0 THEN { <<>> }
  ELSE LET shorter == SeqsUpTo(S, n - 1)
       IN shorter \cup { Append(s, e) : s \in shorter, e \in S }

\* a directive whose option group is present and empty: <>
EmptyGroupLine == [Directive(<<>>, "2", "3", "TangPara") EXCEPT !.hasopt = TRUE]

OptionFiles ==
  { << first >> \o [ k \in 1..(ExpectedPieces - 1) |-> PlainLine ] :
      first \in { Directive(opts, "2", "3", "TangPara") :
                    opts \in SeqsUpTo(OptionTokens, MaxOpts) }
                \cup { EmptyGroupLine } }

\* transform family: seven directives with one rotation, flips and anchor;
\* the anchor is (a, -a)
TransformFiles ==
  { [ k \in 1..ExpectedPieces |->
        Directive(<< <<"rotate", ToString(r)>> >> \o
                  (IF xf THEN << <<"xscale", "-1">> >> ELSE <<>>) \o
                  (IF yf THEN << <<"yscale", "-1">> >> ELSE <<>>),
                  ToString(a), ToString(0 - a), "TangPetTri") ] :
      r \in 0..(FullTurn - 1), xf \in BOOLEAN, yf \in BOOLEAN,
      a \in (0 - MaxAnchor)..MaxAnchor }

Files == MixedFiles \cup OptionFiles \cup TransformFiles

----------------------------------------------------------------------------
(* The specification *)

Init ==
  /\ content \in Files
  /\ lines = <<>>
  /\ line_no = 0
  /\ piece_index = 0
  /\ transformations = [n \in {} |-> NoTransform]
  /\ pieces = <<>>
  /\ error = NoError
  /\ constructed = FALSE
  /\ stdout = <<>>
  /\ xy = <<>>
  /\ outfile = NoFile
  /\ pc = "start"

Next ==
  \/ ReadFile
  \/ ParseLine
  \/ AssertCount
  \/ ComputeVertices
  \/ PrintPuzzle
  \/ RotateCall
  \/ DrawPieces

Spec == Init /\ [][Next]_vars

TypeOK ==
  pc \in {"start", "parse", "compute", "print", "rotate", "draw", "done", "raised"}

----------------------------------------------------------------------------
(* What the claims speak about, stated from the input and the stored state *)

\* every rotate option of the line carries an integer text
RotateTextsOK(l) ==
  \A k \in 1..Len(l.options) :
    (l.hasopt /\ Len(l.options[k]) >= 2 /\ l.options[k][1] = "rotate")
      => IsInt(l.options[k][2])

\* a matching, non-commented, parseable directive line
FullyValid(l) ==
  /\ l.lead # "%" /\ l.tag /\ l.sol
  /\ l.x # "" /\ l.y # "" /\ l.type # ""
  /\ IsInt(l.x) /\ IsInt(l.y) /\ RotateTextsOK(l)

ValidLines(f) == SelectSeq(f, FullyValid)

CountValid(f) == Len(ValidLines(f))

\* every directive-shaped line of the input is a fully valid directive
CleanInput ==
  \A p \in 1..Len(content) :
    (content[p].lead # "%" /\ Matches(content[p])) => FullyValid(content[p])

ParseOver == pc \notin {"start", "parse"}

Resolved(k) == pieces[k].vertices # <<>>

AllResolved == \A k \in 1..Len(pieces) : Resolved(k)

NoneResolved == \A k \in 1..Len(pieces) : ~Resolved(k)

\* the directive line the k-th stored piece was parsed from
SourceLine(k) == SelectSeq(lines, Matches)[k]

OptionsOf(l) == IF l.hasopt THEN l.options ELSE <<>>

\* the template points of piece k, transformed, in template order
TransformedOf(k) ==
  LET base == shape_templates[pieces[k].name]
  IN [ j \in 1..Len(base) |->
         TransformPoint(base[j], pieces[k].transform, pieces[k].x, pieces[k].y) ]

\* s is t taken cyclically from some starting place
IsCyclicShift(s, t) ==
  /\ Len(s) = Len(t)
  /\ \E d \in 0..(Len(t) - 1) :
       \A j \in 1..Len(t) : s[j] = t[((j - 1 + d) % Len(t)) + 1]

----------------------------------------------------------------------------
(* C1: an input whose number of matching, non-commented, parseable         *)
(* directive lines is not 7 fails with the count-mismatch error naming 7   *)
(* and the count found, and no puzzle is returned; an input with exactly 7 *)
(* succeeds.  Stated here for the inputs whose directive-shaped lines are  *)
(* all fully valid, which the claim covers.                                *)
C1_CountGate ==
  (ParseOver /\ CleanInput) =>
    IF CountValid(content) = 7
    THEN error = NoError
    ELSE /\ error = [type |-> "AssertionError", msg |-> <<7, CountValid(content)>>]
         /\ pc = "raised"
         /\ ~constructed

(* C2: the first stored vertex of every resolved piece has the smallest x  *)
(* of the piece, and the greatest y among the vertices with that x.        *)
C2_CanonicalStart ==
  \A k \in 1..Len(pieces) :
    Resolved(k) =>
      LET v == pieces[k].vertices
      IN \A j \in 1..Len(v) :
           /\ v[1][1] <= v[j][1]
           /\ (v[j][1] = v[1][1] => v[j][2] <= v[1][2])

\* the square with x-flip, no rotation, anchor (0,0) starts at (-1,1)
C2_Witness ==
  \E k \in 1..Len(pieces) :
    /\ pieces[k].name = "Square"
    /\ pieces[k].transform = [xflip |-> TRUE, yflip |-> FALSE, rotate |-> 0]
    /\ pieces[k].x = 0 /\ pieces[k].y = 0
    /\ Resolved(k)
    /\ pieces[k].vertices[1] = <<-100000, 100000>>

\* reference: exact quarter turns, then the flips, then the anchor
QuarterTurn(pt, q) ==
  CASE q = 0 -> << pt[1], pt[2] >>
    [] q = 1 -> << 0 - pt[2], pt[1] >>
    [] q = 2 -> << 0 - pt[1], 0 - pt[2] >>
    [] q = 3 -> << pt[2], 0 - pt[1] >>

RefPoint(pt, piece) ==
  LET r == QuarterTurn(pt, piece.transform.rotate \div 90)
      fx == IF piece.transform.xflip THEN 0 - r[1] ELSE r[1]
      fy == IF piece.transform.yflip THEN 0 - r[2] ELSE r[2]
  IN << 50000 * fx + 100000 * piece.x, 50000 * fy + 100000 * piece.y >>

(* C3: for a rotation that is a multiple of 90 degrees, the resolved       *)
(* coordinates of a piece are its template points rotated about the        *)
(* origin, then flipped, then moved by the anchor.                         *)
C3_RotateFlipTranslate ==
  \A k \in 1..Len(pieces) :
    (Resolved(k) /\ pieces[k].transform.rotate % 90 = 0) =>
      LET base == shape_templates[pieces[k].name]
          v == pieces[k].vertices
      IN /\ Len(v) = Len(base)
         /\ { v[j] : j \in 1..Len(v) } =
            { RefPoint(base[j], pieces[k]) : j \in 1..Len(base) }

\* a quarter turn with one flip, where the order of the two matters
C3_Witness ==
  \E k \in 1..Len(pieces) :
    /\ pieces[k].name = "Parallelogram"
    /\ pieces[k].transform = [xflip |-> TRUE, yflip |-> FALSE, rotate |-> 90]
    /\ pieces[k].x = 1 /\ pieces[k].y = -1
    /\ Resolved(k)

C5_LabelsInFileOrder ==
  (ParseOver /\ error = NoError) =>
    /\ Len(pieces) = 7
    /\ [ k \in 1..7 |-> pieces[k].name ] =
         << "Large triangle 1", "Large triangle 2", "Medium triangle",
            "Small triangle 1", "Small triangle 2", "Square", "Parallelogram" >>
    /\ LET valid == ValidLines(content)
       IN /\ Len(valid) = 7
          /\ \A k \in 1..7 : /\ pieces[k].x = int(valid[k].x)
                              /\ pieces[k].y = int(valid[k].y)

\* the first directive carries the parallelogram tag and is Large triangle 1
C5_Witness ==
  /\ ParseOver /\ error = NoError
  /\ ValidLines(content)[1].type = "TangPara"
  /\ ValidLines(content)[2].type = "TangGrandTri"
  /\ pieces[1].name = "Large triangle 1"

\* twice the signed area of the triangle of the first three vertices,
\* in units of 1e-3 squared
Winding(v) ==
  LET ax == (v[2][1] - v[1][1]) \div 100
      ay == (v[2][2] - v[1][2]) \div 100
      bx == (v[3][1] - v[1][1]) \div 100
      by == (v[3][2] - v[1][2]) \div 100
      cross == ax * by - ay * bx
  IN IF cross > 0 THEN 1 ELSE IF cross < 0 THEN -1 ELSE 0

(* C6: all resolved pieces are wound the same way, whatever the rotation   *)
(* and the flips of their directives.                                      *)
C6_SameWinding ==
  \A k1, k2 \in 1..Len(pieces) :
    (Resolved(k1) /\ Resolved(k2)) =>
      Winding(pieces[k1].vertices) = Winding(pieces[k2].vertices)

(* C7: commented lines and lines that cannot be parsed as a directive,     *)
(* those with a non-integer anchor or rotate value included, are skipped   *)
(* silently: an input with exactly 7 valid lines and any such lines gives  *)
(* the 7 pieces and no error.                                              *)
C7_JunkSkipped ==
  (ParseOver /\ CountValid(content) = 7) =>
    /\ error = NoError
    /\ Len(pieces) = 7
    /\ piece_index = 7

\* the rotation the option list asks for: the last rotate value, less the
\* whole turns it contains
ExpectedRotation(opts) ==
  LET R == { j \in 1..Len(opts) : Len(opts[j]) >= 2 /\ opts[j][1] = "rotate" }
  IN IF R = {} THEN 0
     ELSE LET last == CHOOSE j \in R : \A i \in R : i <= j
              v == int(opts[last][2])
          IN v - 360 * (v \div 360)

(* C8: the stored rotation is the given rotate value modulo 360, in        *)
(* [0,360); x-flip and y-flip are true exactly when xscale=-1 and          *)
(* yscale=-1 are among the options; other options change nothing, and no   *)
(* option list means rotation 0 and no flip.                               *)
C8_OptionsParsed ==
  \A k \in 1..Len(pieces) :
    LET opts == OptionsOf(SourceLine(k))
        t == pieces[k].transform
    IN /\ t.rotate \in 0..359
       /\ t.rotate = ExpectedRotation(opts)
       /\ t.xflip = (\E j \in 1..Len(opts) : opts[j] = <<"xscale", "-1">>)
       /\ t.yflip = (\E j \in 1..Len(opts) : opts[j] = <<"yscale", "-1">>)
       /\ transformations[pieces[k].name] = t

\* rotate=450 with an unknown option and a y-flip is stored as 90
C8_Witness ==
  /\ Len(pieces) >= 1
  /\ OptionsOf(SourceLine(1)) = << <<"rotate", "450">>, <<"foo">>, <<"yscale", "-1">> >>
  /\ pieces[1].transform = [xflip |-> FALSE, yflip |-> TRUE, rotate |-> 90]

(* C9: extraction, resolution and emission happen in that order: vertices  *)
(* exist only after all 7 directives are extracted and the count check     *)
(* passed, the document is written only after every piece has vertices,    *)
(* and after a failed extraction nothing is resolved, printed or written.  *)
C9_PhaseOrder ==
  /\ (constructed \/ ~NoneResolved) =>
       /\ Len(pieces) = 7 /\ piece_index = 7 /\ line_no > Len(lines)
       /\ error = NoError
       /\ AllResolved
       /\ pc \in {"print", "rotate", "draw", "done"}
  /\ stdout # <<>> => (constructed /\ pc \in {"rotate", "draw", "done"})
  /\ outfile.written => (constructed /\ stdout # <<>> /\ pc = "done")
  /\ error # NoError =>
       /\ pc = "raised" /\ ~constructed /\ NoneResolved
       /\ stdout = <<>> /\ ~outfile.written
  /\ pc \in {"start", "parse", "compute"} =>
       (NoneResolved /\ stdout = <<>> /\ ~outfile.written)

\* a whole run: the document is written
C9_Witness == pc = "done" /\ outfile.written /\ AllResolved /\ Len(pieces) = 7

(* C10: the grid is [min_x-2, max_x+2] x [min_y-2, max_y+2] over the       *)
(* vertices of all pieces, there is one path per piece in directive order  *)
(* through the stored vertices and back to the first, and the pieces are   *)
(* the ones that were there before the call.                               *)
C10_Diagram ==
  outfile.written =>
    LET V == UNION { { pieces[k].vertices[j] : j \in 1..Len(pieces[k].vertices) } :
                     k \in 1..Len(pieces) }
        g == outfile.grid
    IN /\ \A p \in V : /\ g.min_x + 200000 <= p[1] /\ p[1] <= g.max_x - 200000
                       /\ g.min_y + 200000 <= p[2] /\ p[2] <= g.max_y - 200000
       /\ \E p \in V : p[1] = g.min_x + 200000
       /\ \E p \in V : p[1] = g.max_x - 200000
       /\ \E p \in V : p[2] = g.min_y + 200000
       /\ \E p \in V : p[2] = g.max_y - 200000
       /\ Len(outfile.paths) = 7 /\ Len(pieces) = 7
       /\ \A k \in 1..7 :
            LET v == pieces[k].vertices
                path == outfile.paths[k]
            IN /\ Len(path) = Len(v) + 1
               /\ SubSeq(path, 1, Len(v)) = v
               /\ path[Len(path)] = v[1]
       /\ Str(pieces) = stdout

\* a document of pieces that differ, so that the box spans several pieces
C10_Witness ==
  /\ outfile.written
  /\ \E k1, k2 \in 1..Len(pieces) :
       /\ pieces[k1].vertices[1][1] < pieces[k2].vertices[1][1]
       /\ pieces[k1].transform # pieces[k2].transform

====
